---- MODULE Spec2Model ----
(***************************************************************************)
(* State machine of the realtime voice session of the SevaAssistant        *)
(* component (src/components/SevaAssistant.tsx): session start / stop,     *)
(* microphone capture and outbound sends, inbound message handling with    *)
(* playback scheduling, interruption and transcript finalisation.          *)
(*                                                                         *)
(* Execution model: JavaScript's single thread.  Every callback runs to    *)
(* completion, except that an async function stops at an await.  The       *)
(* continuation of `await decodeAudioData(...)` is a microtask: the        *)
(* continuations are resumed in FIFO order and before any other event      *)
(* (click, ended, open, close, timer) is dispatched; only a further        *)
(* onmessage invocation by the caller can start while one is suspended.    *)
(***************************************************************************)
EXTENDS Integers, Sequences, FiniteSets, TLC

\* ------------------------------------------------------------ bounds
MaxSessions == 2   \* startSession invocations
MaxFrames   == 3   \* audio frames scheduled or waiting for their decode, one session
MaxShared   == 2   \* the same, where sessions follow one another
MaxDur      == 2   \* longest audio buffer, in clock ticks
MaxTime     == 2   \* wall-clock ticks
MaxCaptured == 3   \* onaudioprocess invocations in total
MaxResets   == 1   \* interruption events handled
MaxCommands == 2   \* commands dispatched to onCommand
MaxPending  == 2   \* onmessage handlers suspended at the decode await
MaxPartials == 2   \* partial transcripts within one turn
MaxErrors   == 1   \* onerror events

Sessions == 1..MaxSessions
FrameIds == 1..MaxFrames
Null     == 0
NoAudio  == 0
BadAudio == -1
NoText   == "none"
Texts    == {"a", "b"}

Max(a, b) == IF a >= b THEN a ELSE b

\* A server message, reduced to the fields onmessage reads.
Msgs ==
  [audio : {NoAudio, BadAudio} \cup (1..MaxDur),
   text : {NoText} \cup Texts,
   turnComplete : BOOLEAN,
   interrupted : BOOLEAN]

\* epoch: the interruptions handled when the node was scheduled; began: those
\* handled when its onmessage handler was invoked
NoNode == [sess |-> Null, start |-> 0, dur |-> 0, st |-> "none", epoch |-> 0, began |-> 0]

VARIABLES
  isActive, isMinimized, transcription, isSpeaking,   \* useState
  audioContextRef, sessionRef, nextStartTimeRef, sourcesRef,   \* useRef
  startPc,      \* position of each startSession invocation
  ws,           \* connection of each session
  prom,         \* state of each sessionPromise
  created,      \* wall-clock time at which the session's outputCtx was made
  now,          \* wall clock
  node,         \* the AudioBufferSourceNodes created by onmessage
  pending,      \* onmessage handlers suspended at the decode await (FIFO), each
                \* with its message and the number of resets when it began
  captured,     \* onaudioprocess invocations of each session
  thenQ,        \* frames waiting for sessionPromise to resolve
  sent,         \* frames handed to session.sendRealtimeInput, in order
  closeCalls,   \* calls of session.close() per session
  commands,     \* texts passed to onCommand
  resets,       \* interruption events handled so far
  heard,        \* the partial transcripts handled in the latest turn, whether
                \* that turn has been completed, and the session of the latest
  errorLog,     \* console.error calls of onerror
  calc,         \* a sample on its way through the PCM encoder and decoder
  events,       \* App: the events store (useState, App.tsx line 693)
  dateNow,      \* App: the value that Date.now() returns
  drawn         \* App: the values drawn from Math.random() so far

uiVars   == <<isActive, isMinimized, transcription, isSpeaking>>
refVars  == <<audioContextRef, sessionRef, nextStartTimeRef, sourcesRef>>
connVars == <<startPc, ws, prom, created>>
playVars == <<node, pending, resets>>
outVars  == <<captured, thenQ, sent>>
appVars  == <<events, dateNow, drawn>>
auxVars  == <<heard, errorLog, calc, appVars>>
vars == <<uiVars, refVars, connVars, now, playVars, outVars, closeCalls, commands,
          auxVars>>

\* outputCtx.currentTime of session s
CtxTime(s) == now - created[s]

Started(s) == startPc[s] # "none"
\* ai.live.connect has been issued for s and s has not been closed
Live(s) == ws[s] \in {"connecting", "open"}
Capturing(s) == ws[s] \in {"open", "closing", "closed"}
MicLive(s) == startPc[s] \in {"connecting", "done", "failedConn"}
Tracked == Cardinality(sourcesRef)
Scheduled == {i \in FrameIds : node[i].st # "none"}

RECURSIVE SumTo(_, _)
SumTo(f, n) == IF n = 0 THEN 0 ELSE f[n] + SumTo(f, n - 1)
TotalCaptured == SumTo(captured, MaxSessions)

\* handlers in the microtask queue that will schedule a frame / reset / finalise
PendingAudio == Cardinality({k \in 1..Len(pending) : pending[k].msg.audio > 0})
PendingIntr  == Cardinality({k \in 1..Len(pending) : pending[k].msg.interrupted})
PendingTurn  == Cardinality({k \in 1..Len(pending) : pending[k].msg.turnComplete})
PendingText  == Cardinality({k \in 1..Len(pending) : pending[k].msg.text # NoText})

\* no partial transcript yet
NoTurn == [texts |-> <<>>, done |-> TRUE, from |-> Null]

\* no sample in the encoder
NoCalc == [pc |-> "none", v |-> 0, pcm |-> 0, out |-> 0]

\* ------------------------------------------------------------ PCM conversion
\* Samples are counted in units of 1 / (PcmScale * SubSteps): the sample k
\* stands for the floating-point value k / (PcmScale * SubSteps), so that
\* -1.0 is -PcmScale * SubSteps and 1.0 is PcmScale * SubSteps.
PcmScale == 32768
Int16Mod == 2 * PcmScale
SubSteps == 2
Samples == (-(PcmScale * SubSteps)) .. (PcmScale * SubSteps)

\* the store into an Int16Array element: the number is truncated towards zero
\* and taken modulo 2^16 into -32768 .. 32767
ToInt16(n) == ((n + PcmScale) % Int16Mod) - PcmScale

\* an encoder that clamps to the largest 16-bit sample
EncodeClamped(k) ==
  LET n == IF k >= 0 THEN k \div SubSteps ELSE -((-k) \div SubSteps)
  IN IF n > PcmScale - 1 THEN PcmScale - 1 ELSE n

\* line 63: int16[i] = inputData[i] * 32768
Encode(k) ==
  LET n == IF k >= 0 THEN k \div SubSteps ELSE -((-k) \div SubSteps)
  IN ToInt16(n)

\* line 37: channelData[i] = dataInt16[...] / 32768.0, in the units of Samples
Decode(pcm) == pcm * SubSteps

\* line 60: a sample of the input buffer
TakeSample ==
  /\ calc.pc = "none"
  /\ \E k \in Samples : calc' = [pc |-> "sample", v |-> k, pcm |-> 0, out |-> 0]
  /\ UNCHANGED <<uiVars, refVars, connVars, now, playVars, heard, errorLog, appVars, outVars,
                 closeCalls, commands>>

EncodeSample ==
  /\ calc.pc = "sample"
  /\ calc' = [calc EXCEPT !.pc = "encoded", !.pcm = Encode(calc.v)]
  /\ UNCHANGED <<uiVars, refVars, connVars, now, playVars, heard, errorLog, appVars, outVars,
                 closeCalls, commands>>

DecodeSample ==
  /\ calc.pc = "encoded"
  /\ calc' = [calc EXCEPT !.pc = "decoded", !.out = Decode(calc.pcm)]
  /\ UNCHANGED <<uiVars, refVars, connVars, now, playVars, heard, errorLog, appVars, outVars,
                 closeCalls, commands>>

\* ------------------------------------------------------------ decodeAudioData
\* 16-bit samples that the data of a message may hold, and the buffers made
\* of them
PcmValues == {-PcmScale, -1, PcmScale - 1}
MaxSamples == 4
MaxChannels == 2
Channels == 1..MaxChannels

PcmData == UNION {[1..n -> PcmValues] : n \in 0..MaxSamples}

\* line 32: frameCount, as the length that createBuffer gives the buffer
FrameCount(data, nc) == Len(data) \div nc

\* a decoder that reads the data as one channel after the other
ChannelDataPlanar(data, nc, c) ==
  [i \in 1..FrameCount(data, nc) |-> Decode(data[c * FrameCount(data, nc) + i])]

\* lines 35-38: the samples of channel c (channels count from 0, the indices
\* of a sequence from 1)
ChannelData(data, nc, c) ==
  [i \in 1..FrameCount(data, nc) |-> Decode(data[(i - 1) * nc + c + 1])]

\* the data of a message reaches decodeAudioData
TakeData ==
  /\ calc.pc = "none"
  /\ \E data \in PcmData, nc \in Channels :
       calc' = [pc |-> "data", data |-> data, nc |-> nc, out |-> <<>>]
  /\ UNCHANGED <<uiVars, refVars, connVars, now, playVars, heard, errorLog, appVars, outVars,
                 closeCalls, commands>>

\* decodeAudioData (lines 30-41); createBuffer throws for a length of 0
DecodeAudioData ==
  /\ calc.pc = "data"
  /\ IF FrameCount(calc.data, calc.nc) = 0
     THEN calc' = [calc EXCEPT !.pc = "threw"]
     ELSE calc' = [calc EXCEPT !.pc = "buffer",
                               !.out = [c \in 0..(calc.nc - 1) |->
                                          ChannelData(calc.data, calc.nc, c)]]
  /\ UNCHANGED <<uiVars, refVars, connVars, now, playVars, heard, errorLog, appVars, outVars,
                 closeCalls, commands>>



\* ------------------------------------------------------------ App: events store
\* An event is its id and its title.  An id is the string of a number: of a
\* literal (INITIAL_TOURNAMENTS), of Date.now() or of Math.random(); the three
\* kinds of string never coincide (the clock is far beyond 2, a random value
\* is below 1), and NoId is the empty id of the form.
MaxEvents == 4   \* events in the store
MaxMs     == 1   \* clock values beyond the first
MaxDrawn  == 2   \* Math.random() values
Titles == {"x", "y"}
NoId == [kind |-> "none", n |-> 0]
LiteralId(n) == [kind |-> "literal", n |-> n]
ClockId(n) == [kind |-> "clock", n |-> n]
RandomId(n) == [kind |-> "random", n |-> n]

\* App.tsx lines 52-55
INITIAL_TOURNAMENTS ==
  <<[id |-> LiteralId(1), title |-> "x"], [id |-> LiteralId(2), title |-> "x"]>>

\* addEvent (App.tsx line 704): the updater of setEvents
addEvent(prev, e) ==
  <<[e EXCEPT !.id = IF e.id = NoId THEN ClockId(dateNow) ELSE e.id]>> \o prev

\* updateEvent (line 705)
updateEvent(prev, e) ==
  [k \in 1..Len(prev) |-> IF prev[k].id = e.id THEN e ELSE prev[k]]

\* deleteEvent (line 706)
deleteEvent(prev, id) == SelectSeq(prev, LAMBDA item : item.id # id)

\* the form of EventModal is saved for a new event (lines 105, 127, 478)
SaveNew ==
  /\ Len(events) < MaxEvents
  /\ \E title \in Titles : events' = addEvent(events, [id |-> NoId, title |-> title])
  /\ UNCHANGED <<uiVars, refVars, connVars, now, playVars, heard, errorLog, calc,
                 dateNow, drawn, outVars, closeCalls, commands>>

\* the form is saved for an event that was opened for editing (lines 110, 478)
SaveEdit ==
  /\ \E k \in 1..Len(events), title \in Titles :
       events' = updateEvent(events, [events[k] EXCEPT !.title = title])
  /\ UNCHANGED <<uiVars, refVars, connVars, now, playVars, heard, errorLog, calc,
                 dateNow, drawn, outVars, closeCalls, commands>>

\* the delete button of an event's card (line 530)
ClickDelete ==
  /\ \E k \in 1..Len(events) : events' = deleteEvent(events, events[k].id)
  /\ UNCHANGED <<uiVars, refVars, connVars, now, playVars, heard, errorLog, calc,
                 dateNow, drawn, outVars, closeCalls, commands>>

\* handleImport (lines 444-464), one line of the file: the id is a value of
\* Math.random(), taken never to repeat
ImportLine ==
  /\ Len(events) < MaxEvents
  /\ drawn < MaxDrawn
  /\ drawn' = drawn + 1
  /\ \E title \in Titles :
       events' = addEvent(events, [id |-> RandomId(drawn + 1), title |-> title])
  /\ UNCHANGED <<uiVars, refVars, connVars, now, playVars, heard, errorLog, calc,
                 dateNow, outVars, closeCalls, commands>>

\* a millisecond passes
TickMs ==
  /\ dateNow < MaxMs
  /\ dateNow' = dateNow + 1
  /\ UNCHANGED <<uiVars, refVars, connVars, now, playVars, heard, errorLog, calc,
                 events, drawn, outVars, closeCalls, commands>>

Init ==
  /\ isActive = FALSE
  /\ isMinimized = TRUE
  /\ transcription = ""
  /\ isSpeaking = FALSE
  /\ audioContextRef = Null
  /\ sessionRef = Null
  /\ nextStartTimeRef = 0
  /\ sourcesRef = {}
  /\ startPc = [s \in Sessions |-> "none"]
  /\ ws = [s \in Sessions |-> "none"]
  /\ prom = [s \in Sessions |-> "none"]
  /\ created = [s \in Sessions |-> 0]
  /\ now = 0
  /\ node = [i \in FrameIds |-> NoNode]
  /\ pending = <<>>
  /\ captured = [s \in Sessions |-> 0]
  /\ thenQ = [s \in Sessions |-> <<>>]
  /\ sent = [s \in Sessions |-> <<>>]
  /\ closeCalls = [s \in Sessions |-> 0]
  /\ commands = <<>>
  /\ resets = 0
  /\ heard = NoTurn
  /\ errorLog = 0
  /\ calc = NoCalc
  /\ events = INITIAL_TOURNAMENTS
  /\ dateNow = 0
  /\ drawn = 0

\* No macrotask is dispatched while a microtask (a suspended handler) is queued.
Idle == pending = <<>>

\* ------------------------------------------------------------ session start
\* startSession up to `await getUserMedia` (lines 43-51)
StartSession(s) ==
  /\ startPc' = [startPc EXCEPT ![s] = "getUserMedia"]
  /\ created' = [created EXCEPT ![s] = now]
  /\ audioContextRef' = s
  /\ UNCHANGED <<isActive, isMinimized, transcription, isSpeaking, sessionRef,
                 nextStartTimeRef, sourcesRef, ws, prom, now, playVars, auxVars, outVars,
                 closeCalls, commands>>

\* the round button (lines 169-180)
ClickButton ==
  /\ Idle
  /\ IF isMinimized
     THEN IF isActive
          THEN /\ isMinimized' = FALSE
               /\ UNCHANGED <<isActive, transcription, isSpeaking, refVars, connVars,
                              now, playVars, auxVars, outVars, closeCalls, commands>>
          ELSE /\ \E s \in Sessions : ~Started(s)
               /\ StartSession(CHOOSE s \in Sessions :
                                 ~Started(s) /\ \A r \in Sessions : r < s => Started(r))
     ELSE /\ isMinimized' = TRUE
          /\ UNCHANGED <<isActive, transcription, isSpeaking, refVars, connVars,
                         now, playVars, auxVars, outVars, closeCalls, commands>>

\* getUserMedia resolves; ai.live.connect is issued and startSession waits for
\* sessionPromise (lines 51-127)
GetUserMediaOk(s) ==
  /\ Idle
  /\ startPc[s] = "getUserMedia"
  /\ startPc' = [startPc EXCEPT ![s] = "connecting"]
  /\ ws' = [ws EXCEPT ![s] = "connecting"]
  /\ prom' = [prom EXCEPT ![s] = "pending"]
  /\ UNCHANGED <<uiVars, refVars, created, now, playVars, auxVars, outVars, closeCalls, commands>>

\* the catch block (lines 130-132): it only logs
StartFailed(s, pc) ==
  /\ startPc' = [startPc EXCEPT ![s] = pc]
  /\ UNCHANGED <<uiVars, refVars, created, now, playVars, auxVars, outVars, closeCalls, commands>>

\* getUserMedia rejects (device unavailable, permission denied)
GetUserMediaFail(s) ==
  /\ Idle
  /\ startPc[s] = "getUserMedia"
  /\ StartFailed(s, "failedMic")
  /\ UNCHANGED <<ws, prom>>

\* the handshake fails: sessionPromise rejects
ConnectFail(s) ==
  /\ Idle
  /\ startPc[s] = "connecting"
  /\ ws[s] = "connecting"
  /\ ws' = [ws EXCEPT ![s] = "failed"]
  /\ prom' = [prom EXCEPT ![s] = "rejected"]
  /\ StartFailed(s, "failedConn")

\* onopen (lines 56-77): the script processor is connected, capture begins
OnOpen(s) ==
  /\ Idle
  /\ ws[s] = "connecting"
  /\ ws' = [ws EXCEPT ![s] = "open"]
  /\ UNCHANGED <<uiVars, refVars, startPc, prom, created, now, playVars, auxVars, outVars,
                 closeCalls, commands>>

Reverse(q) == [k \in 1..Len(q) |-> q[Len(q) + 1 - k]]

\* reactions that run last-registered first
FlushReversed(delivered, queued) == delivered \o Reverse(queued)

\* The reactions of a resolved sessionPromise run in the order they were
\* registered: the frames queued by onaudioprocess (lines 71-73).
Flush(delivered, queued) == delivered \o queued

\* sessionPromise resolves: startSession continues (lines 127-129), then the
\* queued sends run
ConnectResolve(s) ==
  /\ Idle
  /\ startPc[s] = "connecting"
  /\ ws[s] = "open"
  /\ prom[s] = "pending"
  /\ prom' = [prom EXCEPT ![s] = "resolved"]
  /\ startPc' = [startPc EXCEPT ![s] = "done"]
  /\ sessionRef' = s
  /\ isActive' = TRUE
  /\ isMinimized' = FALSE
  /\ sent' = [sent EXCEPT ![s] = Flush(sent[s], thenQ[s])]
  /\ thenQ' = [thenQ EXCEPT ![s] = <<>>]
  /\ UNCHANGED <<transcription, isSpeaking, audioContextRef, nextStartTimeRef,
                 sourcesRef, ws, created, now, playVars, auxVars, captured, closeCalls, commands>>

\* ------------------------------------------------------------ session end
\* a stop that closes the session and keeps the handle
CloseHandleKeepRef(ref) ==
  IF ref # Null
  THEN /\ closeCalls' = [closeCalls EXCEPT ![ref] = @ + 1]
       /\ ws' = [ws EXCEPT ![ref] = IF @ = "open" THEN "closing" ELSE @]
       /\ UNCHANGED sessionRef
  ELSE UNCHANGED <<closeCalls, ws, sessionRef>>

\* session.close() on the stored handle (lines 136-139)
CloseHandle(ref) ==
  IF ref # Null
  THEN /\ closeCalls' = [closeCalls EXCEPT ![ref] = @ + 1]
       /\ ws' = [ws EXCEPT ![ref] = IF @ = "open" THEN "closing" ELSE @]
       /\ sessionRef' = Null
  ELSE UNCHANGED <<closeCalls, ws, sessionRef>>

\* stopSession (lines 135-142), the "Вимкнути" button
StopSession ==
  /\ Idle
  /\ CloseHandle(sessionRef)
  /\ isActive' = FALSE
  /\ isMinimized' = TRUE
  /\ UNCHANGED <<transcription, isSpeaking, audioContextRef, nextStartTimeRef,
                 sourcesRef, startPc, prom, created, now, playVars, auxVars, outVars, commands>>

\* an onclose that leaves the assistant active
OnCloseKeepActive(s) ==
  /\ Idle
  /\ ws[s] \in {"open", "closing"}
  /\ ws' = [ws EXCEPT ![s] = "closed"]
  /\ UNCHANGED <<uiVars, refVars, startPc, prom, created, now, playVars, auxVars,
                 outVars, closeCalls, commands>>

\* onclose (line 117): the connection ended, by the server or after close()
OnClose(s) ==
  /\ Idle
  /\ ws[s] \in {"open", "closing"}
  /\ ws' = [ws EXCEPT ![s] = "closed"]
  /\ isActive' = FALSE
  /\ UNCHANGED <<isMinimized, transcription, isSpeaking, refVars, startPc, prom,
                 created, now, playVars, auxVars, outVars, closeCalls, commands>>

\* ------------------------------------------------------------ capture
\* the n-th frame captured by a session; early: captured before sessionPromise
\* resolved; failed: session.sendRealtimeInput throws for it (line 72)
Frame(n, early, failed) == [n |-> n, early |-> early, failed |-> failed]

\* a capture path that gives up after a send that failed
HandOverUnlessFailed(q, fr) ==
  IF \E k \in 1..Len(q) : q[k].failed THEN q ELSE Append(q, fr)

\* lines 71-73: the callback given to sessionPromise.then runs for the frame;
\* what sendRealtimeInput throws rejects only the promise that then() returned
HandOver(q, fr) == Append(q, fr)

\* onaudioprocess (lines 59-74): the frame is sent at once when sessionPromise
\* has resolved, and waits for it otherwise; a rejected promise drops it
Capture(s, fails) ==
  /\ Idle
  /\ Capturing(s)
  /\ TotalCaptured < MaxCaptured
  /\ captured' = [captured EXCEPT ![s] = @ + 1]
  /\ IF prom[s] = "resolved"
     THEN /\ sent' = [sent EXCEPT ![s] = HandOver(@, Frame(captured[s] + 1, FALSE, fails))]
          /\ UNCHANGED thenQ
     ELSE /\ thenQ' = [thenQ EXCEPT ![s] = Append(@, Frame(captured[s] + 1, TRUE, fails))]
          /\ UNCHANGED sent
  /\ UNCHANGED <<uiVars, refVars, connVars, now, playVars, auxVars, closeCalls, commands>>

\* a socket that closes on an error event
OnErrorCloses(s) ==
  /\ Idle
  /\ Live(s)
  /\ errorLog < MaxErrors
  /\ errorLog' = errorLog + 1
  /\ isActive' = FALSE
  /\ UNCHANGED <<isMinimized, transcription, isSpeaking, refVars, connVars, now,
                 playVars, heard, calc, appVars, outVars, closeCalls, commands>>

\* onerror (line 116): console.error and nothing else
OnError(s) ==
  /\ Idle
  /\ Live(s)
  /\ errorLog < MaxErrors
  /\ errorLog' = errorLog + 1
  /\ UNCHANGED <<uiVars, refVars, connVars, now, playVars, heard, calc, appVars, outVars,
                 closeCalls, commands>>

\* the clocks advance
Tick ==
  /\ Idle
  /\ now < MaxTime
  /\ now' = now + 1
  /\ UNCHANGED <<uiVars, refVars, connVars, playVars, auxVars, outVars, closeCalls, commands>>

\* ------------------------------------------------------------ inbound messages
\* The state an onmessage handler reads and writes, as one record.
Cur ==
  [tr |-> transcription, cmds |-> commands, clk |-> nextStartTimeRef,
   srcs |-> sourcesRef, spk |-> isSpeaking, nd |-> node, rs |-> resets,
   hd |-> heard, by |-> Null]

FreeId(nd) == CHOOSE i \in FrameIds : nd[i].st = "none" /\ \A j \in FrameIds : j < i => nd[j].st # "none"

\* a scheduler that starts every buffer at the device time
StartTimeNow(clk, t) == t

\* a scheduler that takes the earlier of the clock and the device time
StartTimeMin(clk, t) == IF clk <= t THEN clk ELSE t

\* line 89: the start time of the buffer being scheduled
StartTime(clk, t) == Max(clk, t)

\* a scheduler that forgets the buffer's duration
AdvanceNone(start, d) == start

\* line 91: the clock after the buffer has been scheduled
Advance(start, d) == start + d

\* a scheduler that advances the clock from where it stood, not from the start
\* of the buffer
ScheduleStepFromClock(h, d, t, x) ==
  LET i == FreeId(x.nd)
      start == StartTime(x.clk, t)
  IN [x EXCEPT !.clk = x.clk + d,
               !.srcs = @ \cup {i},
               !.nd = [@ EXCEPT ![i] = [sess |-> h.s, start |-> start, dur |-> d,
                                        st |-> "scheduled", epoch |-> x.rs,
                                        began |-> h.rs]]]

\* lines 85-96: schedule the decoded buffer of duration d on the output context
\* of session s, whose currentTime is t, in the handler h
ScheduleStep(h, d, t, x) ==
  LET i == FreeId(x.nd)
      start == StartTime(x.clk, t)
  IN [x EXCEPT !.clk = Advance(start, d),
               !.srcs = @ \cup {i},
               !.nd = [@ EXCEPT ![i] = [sess |-> h.s, start |-> start, dur |-> d,
                                        st |-> "scheduled", epoch |-> x.rs,
                                        began |-> h.rs]]]

\* the record of the turn: a partial transcript was handled / the turn completed
Hear(h, text, s) ==
  IF h.done
  THEN [texts |-> <<text>>, done |-> FALSE, from |-> s]
  ELSE [h EXCEPT !.texts = Append(@, text), !.from = s]

Finish(h) == IF h.done THEN NoTurn ELSE [h EXCEPT !.done = TRUE, !.from = Null]

\* the partial transcripts of the turn that is not yet completed
CurTurn == IF heard.done THEN <<>> ELSE heard.texts

\* a handler that keeps the first partial transcript of a turn
TranscriptStepKeepFirst(m, x) ==
  IF m.text # NoText
  THEN [x EXCEPT !.tr = IF @ = "" THEN m.text ELSE @, !.hd = Hear(@, m.text, x.by)]
  ELSE x

\* lines 98-100: a partial transcript replaces the buffer
TranscriptStep(m, x) ==
  IF m.text # NoText THEN [x EXCEPT !.tr = m.text, !.hd = Hear(@, m.text, x.by)] ELSE x

\* a turn-complete that dispatches and keeps the buffer
TurnStepKeepBuffer(m, x) ==
  IF m.turnComplete
  THEN [x EXCEPT !.cmds = IF x.tr # "" THEN Append(@, x.tr) ELSE @, !.hd = Finish(@)]
  ELSE x

\* lines 101-106: turn complete
TurnStep(m, x) ==
  IF m.turnComplete
  THEN [x EXCEPT !.cmds = IF x.tr # "" THEN Append(@, x.tr) ELSE @, !.tr = "",
                 !.hd = Finish(@)]
  ELSE x

\* the source has played to its end and its onended has not run yet
PastEnd(nd, i) ==
  nd[i].st = "scheduled" /\ CtxTime(nd[i].sess) >= nd[i].start + nd[i].dur

\* lines 108-110: stop() on every tracked source; on a source that has already
\* played to its end stop() has nothing to stop and what it throws is caught
StopAll(nd, srcs) ==
  [i \in FrameIds |->
     IF i \in srcs /\ nd[i].st = "scheduled" /\ ~PastEnd(nd, i)
     THEN [nd[i] EXCEPT !.st = "stopped"]
     ELSE nd[i]]

\* an interruption without the catch: what stop() throws ends the handler
InterruptStepNoCatch(m, x) ==
  IF m.interrupted
  THEN IF \E i \in x.srcs : PastEnd(x.nd, i)
       THEN [x EXCEPT !.rs = @ + 1]
       ELSE [x EXCEPT !.nd = StopAll(x.nd, x.srcs), !.srcs = {}, !.clk = 0,
                      !.spk = FALSE, !.rs = @ + 1]
  ELSE x

\* an interruption that stops the sources and leaves them tracked
InterruptStepKeepSet(m, x) ==
  IF m.interrupted
  THEN [x EXCEPT !.nd = StopAll(x.nd, x.srcs), !.clk = 0, !.spk = FALSE, !.rs = @ + 1]
  ELSE x

\* an interruption that clears the set and leaves the clock
InterruptStepKeepClock(m, x) ==
  IF m.interrupted
  THEN [x EXCEPT !.nd = StopAll(x.nd, x.srcs), !.srcs = {}, !.spk = FALSE, !.rs = @ + 1]
  ELSE x

\* lines 107-114: interrupted
InterruptStep(m, x) ==
  IF m.interrupted
  THEN [x EXCEPT !.nd = StopAll(x.nd, x.srcs), !.srcs = {}, !.clk = 0, !.spk = FALSE,
                 !.rs = @ + 1]
  ELSE x

\* lines 98-114: what follows the audio block
HandlerTail(m, x) == InterruptStep(m, TurnStep(m, TranscriptStep(m, x)))

Commit(x) ==
  /\ transcription' = x.tr
  /\ commands' = x.cmds
  /\ nextStartTimeRef' = x.clk
  /\ sourcesRef' = x.srcs
  /\ isSpeaking' = x.spk
  /\ node' = x.nd
  /\ resets' = x.rs
  /\ heard' = x.hd

\* what the bounds allow a further message to carry
Admissible(m) ==
  /\ m.audio # NoAudio => Len(pending) < MaxPending
  /\ m.audio > 0 => Cardinality(Scheduled) + PendingAudio < MaxFrames
  /\ m.interrupted => resets + PendingIntr < MaxResets
  /\ m.turnComplete => Len(commands) + PendingTurn < MaxCommands
  /\ m.text # NoText => Len(CurTurn) + PendingText < MaxPartials

\* onmessage (lines 78-115) up to the await of line 81, or to its end when the
\* message carries no audio
OnMessage(s, m) ==
  /\ ws[s] = "open"
  /\ Admissible(m)
  /\ IF m.audio # NoAudio
     THEN /\ isSpeaking' = TRUE
          /\ pending' = Append(pending, [s |-> s, msg |-> m, rs |-> resets])
          /\ UNCHANGED <<transcription, commands, nextStartTimeRef, sourcesRef, node,
                         resets, heard>>
     ELSE /\ Commit(HandlerTail(m, [Cur EXCEPT !.by = s]))
          /\ UNCHANGED pending
  /\ UNCHANGED <<isActive, isMinimized, audioContextRef, sessionRef, connVars, now,
                 outVars, closeCalls, errorLog, calc, appVars>>

\* a scheduler that continues the handler suspended last
ResumeLast ==
  /\ pending # <<>>
  /\ LET h == pending[Len(pending)]
         m == h.msg
     IN IF m.audio = BadAudio
        THEN UNCHANGED <<transcription, commands, nextStartTimeRef, sourcesRef,
                         isSpeaking, node, resets, heard>>
        ELSE Commit(HandlerTail(m, ScheduleStep(h, m.audio, CtxTime(h.s), [Cur EXCEPT !.by = h.s])))
  /\ pending' = SubSeq(pending, 1, Len(pending) - 1)
  /\ UNCHANGED <<isActive, isMinimized, audioContextRef, sessionRef, connVars, now,
                 outVars, closeCalls, errorLog, calc, appVars>>

\* onmessage from line 85 on: the oldest suspended handler continues.  A decode
\* that threw (atob, or an odd byte length in line 31) ends the handler there.
Resume ==
  /\ pending # <<>>
  /\ LET h == Head(pending)
         m == h.msg
     IN IF m.audio = BadAudio
        THEN UNCHANGED <<transcription, commands, nextStartTimeRef, sourcesRef,
                         isSpeaking, node, resets, heard>>
        ELSE Commit(HandlerTail(m, ScheduleStep(h, m.audio, CtxTime(h.s), [Cur EXCEPT !.by = h.s])))
  /\ pending' = Tail(pending)
  /\ UNCHANGED <<isActive, isMinimized, audioContextRef, sessionRef, connVars, now,
                 outVars, closeCalls, errorLog, calc, appVars>>

\* an onended that never clears the indicator
OnEndedKeepSpeaking(i) ==
  /\ Idle
  /\ \/ node[i].st = "stopped"
     \/ /\ node[i].st = "scheduled"
        /\ CtxTime(node[i].sess) >= node[i].start + node[i].dur
  /\ node' = [node EXCEPT ![i].st = "ended"]
  /\ sourcesRef' = sourcesRef \ {i}
  /\ isSpeaking' = isSpeaking
  /\ UNCHANGED <<isActive, isMinimized, transcription, audioContextRef, sessionRef,
                 nextStartTimeRef, connVars, now, pending, resets, outVars, closeCalls,
                 commands, auxVars>>

\* source.onended (lines 93-96): the buffer played to its end, or was stopped
OnEnded(i) ==
  /\ Idle
  /\ \/ node[i].st = "stopped"
     \/ /\ node[i].st = "scheduled"
        /\ CtxTime(node[i].sess) >= node[i].start + node[i].dur
  /\ node' = [node EXCEPT ![i].st = "ended"]
  /\ sourcesRef' = sourcesRef \ {i}
  /\ isSpeaking' = IF sourcesRef' = {} THEN FALSE ELSE isSpeaking
  /\ UNCHANGED <<isActive, isMinimized, transcription, audioContextRef, sessionRef,
                 nextStartTimeRef, connVars, now, pending, resets, outVars, closeCalls,
                 commands, auxVars>>

\* ------------------------------------------------------------ specifications
\* messages that carry audio and interruption only / transcript events only /
\* a plain audio frame
AudioMsgs == {m \in Msgs : m.text = NoText /\ ~m.turnComplete}
TextMsgs  == {m \in Msgs : m.audio \in {NoAudio, 1} /\ ~m.interrupted}
FrameMsgs == {m \in Msgs : m.audio = 1 /\ m.text = NoText /\ ~m.turnComplete /\ ~m.interrupted}

Clicks == ClickButton \/ StopSession

Connects ==
  \E s \in Sessions : GetUserMediaOk(s) \/ OnOpen(s) \/ ConnectResolve(s) \/ OnClose(s)

Failures == \E s \in Sessions : GetUserMediaFail(s) \/ ConnectFail(s)

\* captured frames whose sends succeed / may fail
Captures == \E s \in Sessions : Capture(s, FALSE)

CapturesLossy == \E s \in Sessions, fails \in BOOLEAN : Capture(s, fails)

Errors == \E s \in Sessions : OnError(s)

Playback == Resume \/ Tick \/ \E i \in FrameIds : OnEnded(i)

\* the frames that the specifications with several sessions let arrive
Few(m) == m.audio > 0 => Cardinality(Scheduled) + PendingAudio < MaxShared

\* the whole component
Next ==
  \/ Clicks
  \/ Connects
  \/ Failures
  \/ CapturesLossy
  \/ Errors
  \/ Playback
  \/ \E s \in Sessions, m \in Msgs : OnMessage(s, m)

Spec == Init /\ [][Next]_vars

\* the playback scheduler and the interruption handler: sessions that start,
\* receive audio and interruptions, and close
NextPlayback ==
  \/ Clicks
  \/ Connects
  \/ Playback
  \/ \E s \in Sessions, m \in AudioMsgs : Few(m) /\ OnMessage(s, m)

SpecPlayback == Init /\ [][NextPlayback]_vars

\* the session life cycle and the capture pipeline: starts that succeed or fail,
\* stops, closes, captured frames, and plain audio frames being played
NextSession ==
  \/ Clicks
  \/ Connects
  \/ Failures
  \/ Captures
  \/ Playback
  \/ \E s \in Sessions, m \in FrameMsgs : Few(m) /\ OnMessage(s, m)

SpecSession == Init /\ [][NextSession]_vars

\* the transcript aggregator: sessions that start, receive partial transcripts
\* and turn-complete events, alone or with an audio frame, and close
NextTranscript ==
  \/ Clicks
  \/ Connects
  \/ Resume
  \/ \E s \in Sessions, m \in TextMsgs : Few(m) /\ OnMessage(s, m)

SpecTranscript == Init /\ [][NextTranscript]_vars

\* the error paths of an established session: error events of the socket and
\* sends that fail, with plain audio frames being scheduled
NextErrors ==
  \/ Clicks
  \/ Connects
  \/ Failures
  \/ CapturesLossy
  \/ Errors
  \/ Resume
  \/ \E s \in Sessions, m \in FrameMsgs : Few(m) /\ OnMessage(s, m)

SpecErrors == Init /\ [][NextErrors]_vars

\* one session and its playback queue: audio and interruptions, with up to
\* MaxFrames frames
NextOrder ==
  \/ (\A s \in Sessions : ~Started(s)) /\ ClickButton
  \/ Connects
  \/ Playback
  \/ \E s \in Sessions, m \in AudioMsgs : OnMessage(s, m)

SpecOrder == Init /\ [][NextOrder]_vars

\* decodeAudioData alone, over every buffer of up to MaxSamples samples
NextDecode ==
  \/ TakeData
  \/ DecodeAudioData

SpecDecode == Init /\ [][NextDecode]_vars

\* the events store of App alone
NextEvents ==
  \/ SaveNew
  \/ SaveEdit
  \/ ClickDelete
  \/ ImportLine
  \/ TickMs

SpecEvents == Init /\ [][NextEvents]_vars

\* the PCM conversion alone, over every sample of the range
NextPcm ==
  \/ TakeSample
  \/ EncodeSample
  \/ DecodeSample

SpecPcm == Init /\ [][NextPcm]_vars

\* ------------------------------------------------------------ claims
\* the step schedules source node i
Schedules(i) == node[i].st = "none" /\ node'[i].st # "none"

\* source nodes scheduled since the last interruption
SinceReset == {i \in FrameIds : node[i].st # "none" /\ node[i].epoch = resets}

RECURSIVE SumDur(_, _)
SumDur(nd, S) ==
  IF S = {} THEN 0 ELSE LET i == CHOOSE j \in S : TRUE IN nd[i].dur + SumDur(nd, S \ {i})

\* C1: two frames of one session scheduled with no interruption between them do
\* not overlap: the later one starts no earlier than the earlier one ends.
\* (Source nodes are numbered in the order in which they are scheduled.)
C1_NoOverlap ==
  \A i, j \in FrameIds :
    (/\ i < j
     /\ node[j].st # "none"
     /\ node[i].sess = node[j].sess
     /\ node[i].epoch = node[j].epoch)
    => node[j].start >= node[i].start + node[i].dur

\* two frames of one session, the second queued right behind the first although
\* the device clock had not yet reached the end of the first
C1_Witness ==
  /\ node[1].st # "none" /\ node[2].st # "none"
  /\ node[1].sess = node[2].sess
  /\ node[1].epoch = node[2].epoch
  /\ node[2].start = node[1].start + node[1].dur
  /\ node[1].start > 0

\* C2: a frame is scheduled at max(PlaybackClock, device time), hence never
\* before the device time, and the clock then is that start plus the duration
\* (unless the same message goes on to reset it).
C2_StartIsMax ==
  [][\A i \in FrameIds :
       Schedules(i) =>
         LET t == CtxTime(node'[i].sess)
         IN /\ node'[i].start = Max(nextStartTimeRef, t)
            /\ node'[i].start >= t
            /\ node'[i].st = "scheduled"
                 => nextStartTimeRef' = node'[i].start + node'[i].dur]_vars

\* a frame was scheduled at the device time, later than the clock stood
C2_Witness ==
  \E i \in FrameIds :
    /\ node[i].st = "scheduled"
    /\ node[i].start = CtxTime(node[i].sess)
    /\ node[i].start > 0
    /\ nextStartTimeRef = node[i].start + node[i].dur
    /\ \A j \in FrameIds : j # i => node[j].st = "none"

\* C3: the step that handles an interruption leaves the tracked set empty, the
\* clock at 0 and the speaking indicator off.
C3_InterruptResets ==
  [][resets' > resets =>
       /\ sourcesRef' = {}
       /\ nextStartTimeRef' = 0
       /\ isSpeaking' = FALSE]_vars

\* an interruption that found two playbacks tracked
C3_Witness ==
  /\ resets > 0
  /\ Cardinality({i \in FrameIds : node[i].st = "stopped"}) >= 2
  /\ sourcesRef = {}
  /\ nextStartTimeRef = 0

\* C4: the reset is one step.  From an interruption until the next frame is
\* scheduled the set is empty and the clock is 0, and the clock never exceeds
\* the device time plus the audio scheduled since the last interruption: no
\* frame is placed behind audio that the interruption discarded, also not by a
\* handler that was waiting for its decode when the interruption came.
C4_NoStaleClock ==
  /\ (resets > 0 /\ SinceReset = {}) => (sourcesRef = {} /\ nextStartTimeRef = 0)
  /\ nextStartTimeRef <= now + SumDur(node, SinceReset)

\* a handler that began before the interruption has scheduled its frame after
\* it, at the device time
C4_Witness ==
  \E i \in FrameIds :
    /\ node[i].st = "scheduled"
    /\ node[i].began < node[i].epoch
    /\ \E j \in FrameIds : j < i /\ node[j].st = "stopped" /\ node[j].dur > now
    /\ node[i].start = CtxTime(node[i].sess)

Failed == {"failedMic", "failedConn"}

\* C5: the frames handed to a session are its captured frames in capture order,
\* none is handed over before sessionPromise has resolved, and the frames that
\* wait for it wait in capture order.
C5_Fifo ==
  \A s \in Sessions :
    /\ \A k \in 1..Len(sent[s]) : sent[s][k].n = k
    /\ \A k \in 1..Len(thenQ[s]) : thenQ[s][k].n = Len(sent[s]) + k
    /\ sent[s] # <<>> => prom[s] = "resolved"

\* two frames captured before the handle resolved, and a third after, delivered
C5_Witness ==
  \E s \in Sessions :
    /\ Len(sent[s]) >= 3
    /\ sent[s][1].early /\ sent[s][2].early /\ ~sent[s][3].early

\* C6: at most one session is live (connect issued, not closed) at any time.
C6_OneLive == Cardinality({s \in Sessions : Live(s)}) <= 1

\* C7: a start that fails leaves no handle stored, the assistant inactive and
\* minimized, and nothing of the failed start behind: not its audio context in
\* audioContextRef, not its microphone stream.
C7_FailedStartClean ==
  [][\A s \in Sessions :
       (startPc'[s] \in Failed /\ startPc[s] \notin Failed) =>
         /\ sessionRef' = Null
         /\ isActive' = FALSE
         /\ isMinimized' = TRUE
         /\ audioContextRef' # s
         /\ ~MicLive(s)']_vars

\* C8: when a session's close completes (onclose, after stopSession or from the
\* server), the handle is discarded, the assistant is inactive and no playback
\* is tracked.
C8_CloseIsIdle ==
  [][\A s \in Sessions :
       (ws'[s] = "closed" /\ ws[s] # "closed") =>
         /\ sessionRef' = Null
         /\ isActive' = FALSE
         /\ sourcesRef' = {}]_vars

\* C9: once a session is closed its capture callback does not fire and no frame
\* is sent on it.
C9_NoCaptureAfterClose ==
  [][\A s \in Sessions :
       ws[s] = "closed" => (captured'[s] = captured[s] /\ sent'[s] = sent[s])]_vars

\* C10: stopSession with no handle stored closes nothing and leaves the handle
\* absent and the assistant inactive; every stopSession ends with no handle,
\* inactive and minimized; a stopSession repeated in that state changes nothing;
\* so no session is closed twice.
C10_StopIdempotent ==
  [][/\ (StopSession /\ sessionRef = Null) =>
          (closeCalls' = closeCalls /\ ws' = ws /\ sessionRef' = Null /\ isActive' = FALSE)
     /\ StopSession => (sessionRef' = Null /\ isActive' = FALSE /\ isMinimized' = TRUE)
     /\ (StopSession /\ sessionRef = Null /\ ~isActive /\ isMinimized) => UNCHANGED vars
     /\ \A s \in Sessions : closeCalls'[s] <= 1]_vars

\* a session was stopped: closed once, and stopSession can be called again
C10_Witness ==
  \E s \in Sessions :
    /\ closeCalls[s] = 1
    /\ ws[s] = "closing"
    /\ sessionRef = Null /\ ~isActive /\ isMinimized
    /\ pending = <<>>

\* the step runs the transcript and turn-complete blocks of message m
Handles(m) ==
  \/ m.audio = NoAudio /\ \E s \in Sessions : OnMessage(s, m)
  \/ m.audio > 0 /\ pending # <<>> /\ Head(pending).msg = m /\ Resume

\* the partial transcripts of the turn that message m completes
TurnOf(m) == IF m.text # NoText THEN Append(CurTurn, m.text) ELSE CurTurn

C12_EmptyTurnSilent ==
  [][\A m \in Msgs :
       (Handles(m) /\ m.turnComplete) =>
         /\ transcription' = ""
         /\ (m.text = NoText /\ transcription = "") => commands' = commands
         /\ (m.text = NoText /\ heard.done) => commands' = commands]_vars

\* a turn-complete that dispatched was followed by one with nothing to dispatch
C12_Witness ==
  /\ heard = NoTurn
  /\ Len(commands) = 1
  /\ transcription = ""

\* session s is over: it failed to start or its connection is closed
Over(s) == startPc[s] = "failedMic" \/ ws[s] \in {"failed", "closed"}

\* C13: the step in which a connection closes sets the assistant inactive and
\* starts nothing: no startSession is invoked, no connection is issued; and a
\* startSession is invoked by a click on the button only.
C13_CloseDeactivates ==
  [][/\ \A s \in Sessions :
          (ws'[s] = "closed" /\ ws[s] # "closed") =>
            /\ isActive' = FALSE
            /\ startPc' = startPc
            /\ prom' = prom
            /\ \A r \in Sessions : r # s => ws'[r] = ws[r]
     /\ (\E s \in Sessions : ~Started(s) /\ startPc'[s] # "none") => ClickButton]_vars

\* the server closed the only session; the assistant is inactive and no other
\* session has been started
C13_Witness ==
  \E s \in Sessions :
    /\ ws[s] = "closed"
    /\ closeCalls[s] = 0
    /\ startPc[s] = "done"
    /\ ~isActive
    /\ \A r \in Sessions : r # s => ~Started(r)

\* C14: when a session is started after every earlier one is over, the
\* playback clock is 0.
C14_RestartClockZero ==
  [][\A s \in Sessions :
       (/\ ~Started(s)
        /\ startPc'[s] # "none"
        /\ \E r \in Sessions : Started(r)
        /\ \A r \in Sessions : Started(r) => Over(r))
       => nextStartTimeRef' = 0]_vars

\* C15: while a playback is tracked the speaking indicator is on.
C15_TrackedImpliesSpeaking == sourcesRef # {} => isSpeaking

\* a playback reaches its natural end in this step
EndsNaturally(i) == node[i].st = "scheduled" /\ node'[i].st = "ended"

C18_StopErrorSwallowed ==
  [][(resets' > resets /\ \E i \in sourcesRef : PastEnd(node, i)) =>
       /\ \A j \in sourcesRef :
            (node[j].st = "scheduled" /\ ~PastEnd(node, j)) => node'[j].st = "stopped"
       /\ sourcesRef' = {}
       /\ nextStartTimeRef' = 0
       /\ ~isSpeaking'
       /\ ws' = ws /\ sessionRef' = sessionRef /\ isActive' = isActive]_vars

\* an interruption found one playback past its end and stopped another
C18_Witness ==
  /\ resets > 0
  /\ sourcesRef = {}
  /\ nextStartTimeRef = 0
  /\ \E i, j \in FrameIds :
       /\ node[i].st = "scheduled" /\ node[i].epoch < resets
       /\ node[j].st = "stopped"
       /\ node[i].sess = node[j].sess /\ ws[node[i].sess] = "open"

Abs(n) == IF n < 0 THEN -n ELSE n

\* C17: a sample between -1.0 and 1.0, encoded to 16-bit PCM and decoded, is
\* within one quantization step (1 / 32768, that is SubSteps units) of itself.
C17_RoundTrip ==
  calc.pc = "decoded" => Abs(calc.out - calc.v) <= SubSteps

\* C19: an error event of the socket leaves the session handle, the active
\* state, the tracked set, the clock, the speaking indicator and the
\* transcript buffer as they were, and the socket and the start as well.
C19_ErrorKeepsSession ==
  [][errorLog' > errorLog =>
       /\ sessionRef' = sessionRef
       /\ isActive' = isActive
       /\ sourcesRef' = sourcesRef
       /\ nextStartTimeRef' = nextStartTimeRef
       /\ isSpeaking' = isSpeaking
       /\ transcription' = transcription
       /\ ws' = ws /\ prom' = prom /\ startPc' = startPc]_vars

\* an error was reported and the session is open, held and playing
C19_Witness ==
  /\ errorLog > 0
  /\ isActive
  /\ sessionRef # Null /\ ws[sessionRef] = "open"
  /\ sourcesRef # {}
  /\ isSpeaking
  /\ nextStartTimeRef > 0

\* C20: a capture step leaves the session as it is, and once sessionPromise
\* has resolved every captured frame has been handed to the session, in
\* order, whether or not the sends of earlier frames failed.
C20_SendFailureIsLocal ==
  [][\A s \in Sessions :
       /\ captured'[s] # captured[s] =>
            /\ ws' = ws /\ prom' = prom /\ startPc' = startPc
            /\ sessionRef' = sessionRef /\ isActive' = isActive
       /\ prom'[s] = "resolved" =>
            /\ Len(sent'[s]) = captured'[s]
            /\ \A k \in 1..Len(sent'[s]) : sent'[s][k].n = k]_vars

\* the send of a frame failed and the next frame was handed over all the same,
\* on a session that is still open and held
C20_Witness ==
  \E s \in Sessions :
    /\ Len(sent[s]) >= 2
    /\ sent[s][1].failed /\ ~sent[s][1].early
    /\ ~sent[s][2].failed
    /\ ws[s] = "open" /\ sessionRef = s /\ isActive

\* C21: after an interruption nothing is tracked until a frame that arrived
\* after it is scheduled: every frame is scheduled in the period between
\* interruptions in which its message arrived, and the first frame scheduled
\* after an interruption starts at the device time.
C21_QuietAfterInterrupt ==
  [][/\ (resets' > 0 /\ \A i \in FrameIds : node'[i].st = "none" \/ node'[i].epoch # resets')
          => sourcesRef' = {}
     /\ \A i \in FrameIds :
          Schedules(i) =>
            /\ node'[i].began = node'[i].epoch
            /\ (resets > 0 /\ SinceReset = {})
                 => node'[i].start = CtxTime(node'[i].sess)]_vars

\* the handler that schedules is the one suspended first, and a handler that
\* suspends queues behind those already suspended
FifoHandlers ==
  /\ \A i \in FrameIds :
       Schedules(i) =>
         /\ pending # <<>> /\ pending' = Tail(pending)
         /\ node'[i].sess = Head(pending).s
         /\ node'[i].dur = Head(pending).msg.audio
         /\ node'[i].began = Head(pending).rs
         /\ \A j \in FrameIds : node[j].st # "none" => j < i
  /\ Len(pending') > Len(pending) => SubSeq(pending', 1, Len(pending)) = pending

\* C22 as stated: frames are scheduled in the order in which their messages
\* arrived, and a frame never starts later than a frame of the same session
\* that arrived after it.
C22_ArrivalOrderAlways ==
  [][/\ FifoHandlers
     /\ \A i, j \in FrameIds :
          (Schedules(i) /\ node[j].st # "none" /\ node[j].sess = node'[i].sess)
            => node[j].start <= node'[i].start]_vars

\* C22: frames are scheduled in the order in which their messages arrived,
\* and a frame never starts later than a frame of the same session that
\* arrived after it with no interruption handled between the two schedulings.
C22_ArrivalOrder ==
  [][/\ FifoHandlers
     /\ \A i, j \in FrameIds :
          (/\ Schedules(i)
           /\ node[j].st # "none"
           /\ node[j].sess = node'[i].sess
           /\ node[j].epoch = node'[i].epoch)
            => node[j].start <= node'[i].start]_vars

\* two frames were scheduled in their order while the handler of a third is
\* waiting for its decode
C22_Witness ==
  /\ node[1].st = "scheduled" /\ node[2].st = "scheduled"
  /\ node[1].sess = node[2].sess
  /\ node[1].epoch = node[2].epoch
  /\ node[2].start = node[1].start + node[1].dur
  /\ pending # <<>> /\ Head(pending).msg.audio > 0

\* C23: the clock is never negative, and a step lowers it only by handling an
\* interruption: every other step, scheduling steps included, leaves it at
\* least as large as it was.
C23_ClockMonotone ==
  [][/\ nextStartTimeRef' >= 0
     /\ nextStartTimeRef' < nextStartTimeRef => resets' > resets
     /\ (\E i \in FrameIds : Schedules(i)) /\ resets' = resets
          => nextStartTimeRef' >= nextStartTimeRef]_vars

\* two frames were scheduled one after the other with no interruption: the
\* clock went from 0 to the end of the first, then to the end of the second
C23_Witness ==
  /\ resets = 0
  /\ node[1].st # "none" /\ node[2].st # "none"
  /\ node[1].sess = node[2].sess
  /\ node[1].start + node[1].dur > 0
  /\ nextStartTimeRef = node[2].start + node[2].dur
  /\ nextStartTimeRef > node[1].start + node[1].dur

\* C29: the clock is at least the end time of every tracked playback, and a
\* step that schedules a playback (and handles no interruption) leaves the
\* clock at that playback's end time.
C29_ClockCoversTracked ==
  [][/\ \A i \in sourcesRef' : nextStartTimeRef' >= node'[i].start + node'[i].dur
     /\ \A i \in FrameIds :
          (Schedules(i) /\ resets' = resets)
            => nextStartTimeRef' = node'[i].start + node'[i].dur]_vars

\* two playbacks of one session are tracked and the clock is at the end of the
\* second, beyond the end of the first
C29_Witness ==
  /\ sourcesRef = {1, 2}
  /\ node[1].sess = node[2].sess
  /\ nextStartTimeRef = node[2].start + node[2].dur
  /\ nextStartTimeRef > node[1].start + node[1].dur

\* the positions of the decoded buffer: channel and frame index, from 0
Positions(out) == {<<c, i>> \in (DOMAIN out) \X (0..MaxSamples) : i < Len(out[c])}

\* C24: each channel of the decoded buffer has frameCount samples, the input
\* sample number k is found, divided by 32768, in channel k mod numChannels
\* at index k div numChannels, and when the data is a whole number of frames
\* every input sample has exactly one position in the output.  (A decoded
\* value x stands for x / (PcmScale * SubSteps), so x is sample / 32768 when
\* x * PcmScale = sample * PcmScale * SubSteps.)
C24_Deinterleave ==
  calc.pc = "buffer" =>
    LET n == Len(calc.data)
        nc == calc.nc
        fc == n \div nc
    IN /\ DOMAIN calc.out = 0..(nc - 1)
       /\ \A c \in 0..(nc - 1) : Len(calc.out[c]) = fc
       /\ \A k \in 0..(fc * nc - 1) :
            calc.out[k % nc][(k \div nc) + 1] * PcmScale = calc.data[k + 1] * PcmScale * SubSteps
       /\ n % nc = 0 =>
            /\ Cardinality(Positions(calc.out)) = n
            /\ \A k \in 0..(n - 1) :
                 Cardinality({p \in Positions(calc.out) : p[2] * nc + p[1] = k}) = 1

\* a two-channel buffer of two frames whose four samples differ from their
\* neighbours has been decoded
C24_Witness ==
  /\ calc.pc = "buffer"
  /\ calc.nc = 2
  /\ Len(calc.data) = 4
  /\ calc.data[1] # calc.data[2] /\ calc.data[2] # calc.data[3]
  /\ calc.out[0] = <<Decode(calc.data[1]), Decode(calc.data[3])>>
  /\ calc.out[1] = <<Decode(calc.data[2]), Decode(calc.data[4])>>

\* the session has been stopped, or a session started later holds the handle
Superseded(s) == closeCalls[s] > 0 \/ (sessionRef # Null /\ sessionRef > s)

\* C25: while a session started later is connecting or open, the callbacks of
\* a session that was stopped or replaced change nothing of it: the close of
\* the earlier session leaves the active state as it is, and no frame of the
\* earlier session is scheduled.  (Sessions are numbered in the order in which
\* they start.)
C25_OldSessionSilent ==
  [][\A s, r \in Sessions :
       (s < r /\ Live(r) /\ Superseded(s)) =>
         /\ (ws[s] # "closed" /\ ws'[s] = "closed") => isActive' = isActive
         /\ \A i \in FrameIds : Schedules(i) => node'[i].sess # s]_vars

\* the step is the handling of message m by the handler of session s, from
\* the point where it reads the transcript buffer
HandledBy(s, m) ==
  \/ m.audio = NoAudio /\ OnMessage(s, m)
  \/ /\ m.audio > 0
     /\ pending # <<>> /\ Head(pending).s = s /\ Head(pending).msg = m
     /\ Resume

\* C26: a turn-complete that carries no text of its own dispatches no text
\* that was received in another session which had been stopped or closed by
\* then.  (heard.from is the session of the partial transcript in the buffer.)
C26_NoTranscriptLeak ==
  [][\A s \in Sessions, m \in TextMsgs :
       (/\ m.turnComplete /\ m.text = NoText
        /\ HandledBy(s, m)
        /\ Len(commands') > Len(commands)
        /\ heard.from # Null
        /\ heard.from # s)
       => ws[heard.from] \notin {"closing", "closed"}]_vars

\* C27: the speaking indicator is never on with nothing left that turns it
\* off: while it is on, a handler is still waiting for its decode or a playback
\* is still to fire its onended.  From a state where neither is the case only a
\* further message changes the indicator, so without one it stays on for ever.
C27_SpeakingNotStuck ==
  isSpeaking =>
    \/ pending # <<>>
    \/ \E i \in FrameIds : node[i].st \in {"scheduled", "stopped"}

\* C28: the ids of the events in the store are pairwise distinct.
C28_IdsDistinct ==
  \A i, j \in 1..Len(events) : i # j => events[i].id # events[j].id

====
